---- MODULE Spec2Model ----
(***************************************************************************)
(* extract_chains (src/src/main.rs): the trace scanner and its decoders    *)
(* (parse_file, parse_reads, parse_anchors, parse_chains, parse_cigars),   *)
(* the CIGAR path reconstruction (parse_cigar_to_path), the plot window    *)
(* and anchor filter of plot_chain, and the parallel fan-out of            *)
(* plot_reads.                                                             *)
(*                                                                         *)
(* Bytes are one-character strings; a buffer is a sequence of them and     *)
(* the cursor is the 0-based index the code uses (bytes[i] is b[i + 1]).   *)
(* u32 is modelled at width WordBits: TLC's integers are 32-bit signed,    *)
(* so 2^32 itself cannot be written; every u32 operation keeps its shape   *)
(* (parse fails above UMax, + overflows above UMax, saturating_sub floors  *)
(* at 0).                                                                  *)
(***************************************************************************)
EXTENDS Integers, Sequences, FiniteSets, TLC

VARIABLES
    \* parse_file
    bytes,            \* f.as_bytes()
    n,                \* Option<usize>: [some, max]
    mapping_only,     \* the -x flag
    i,                \* the cursor of parse_file
    reads,            \* Vec<Read> accumulated by parse_file
    detail_n,         \* per pushed Read: the final value of parse_cigars' local n
    pc,               \* "scan" | "done" | "panic"
    defect,           \* the format violations put into the buffer: {[kind, name]}
    \* parse_cigar_to_path
    cigar, cigar_ref_start, path, ref_pos, query_pos, ci, cpc,
    \* plot_chain: window and background anchors
    read, chain, plot_mapping_only, ref_plot_start, ref_plot_end,
    filtered_anchors, \* Vec<&Anchor>: the 1-based positions in the pool it refers to
    fi,               \* anchors of the pool the filter has consumed
    ppc,              \* "start" | "window" | "filtered" | "panic"
    \* plot_reads
    out_reads, dirs, started, writes

scan_vars  == <<bytes, n, mapping_only, i, reads, detail_n, pc, defect>>
cigar_vars == <<cigar, cigar_ref_start, path, ref_pos, query_pos, ci, cpc>>
plot_vars  == <<read, chain, plot_mapping_only, ref_plot_start, ref_plot_end,
                filtered_anchors, fi, ppc>>
fan_vars   == <<out_reads, dirs, started, writes>>
vars       == <<scan_vars, cigar_vars, plot_vars, fan_vars>>

\* ------------------------------------------------------------------ bounds
WordBits == 16
MaxReads == 2
MaxChains == 2
MaxCap == 2
MaxCigarLen == 3
MaxPool == 2
MaxFanReads == 2
MaxFanChains == 2

UMax == 2^WordBits - 1

\* ------------------------------------------------------------ u32 helpers
Digits == {"0","1","2","3","4","5","6","7","8","9"}

DigitVal(c) ==
    CASE c = "0" -> 0 [] c = "1" -> 1 [] c = "2" -> 2 [] c = "3" -> 3
      [] c = "4" -> 4 [] c = "5" -> 5 [] c = "6" -> 6 [] c = "7" -> 7
      [] c = "8" -> 8 [] c = "9" -> 9

Min(a, b) == IF a < b THEN a ELSE b
Max(a, b) == IF a > b THEN a ELSE b

\* The value of a digit string, saturated at UMax + 1 (any larger value is
\* "does not fit" to every user).
RECURSIVE DecVal(_, _)
DecVal(s, acc) ==
    IF s = <<>> THEN acc
    ELSE DecVal(Tail(s), Min(UMax + 1, 10 * acc + DigitVal(Head(s))))

Err == -1

\* str::parse::<u32>: an optional '+', then one or more digits, value <= MAX.
ParseU32(s) ==
    LET d == IF s # <<>> /\ Head(s) = "+" THEN Tail(s) ELSE s
    IN  IF d = <<>> \/ \E j \in 1..Len(d) : d[j] \notin Digits THEN Err
        ELSE IF DecVal(d, 0) > UMax THEN Err
        ELSE DecVal(d, 0)

\* str::parse::<bool>: exactly "true" or "false".
ParseBool(s) ==
    IF s = <<"t","r","u","e">> THEN "true"
    ELSE IF s = <<"f","a","l","s","e">> THEN "false"
    ELSE "err"

\* str::parse::<f64> on decimal text [+-]digits[.digits]: the value in
\* thousandths (further fraction digits dropped), or ok = FALSE.  The
\* exponent, inf and nan forms need letters the score fields never hold.
ParseF64(s) ==
    LET neg  == s # <<>> /\ Head(s) = "-"
        body == IF s # <<>> /\ Head(s) \in {"+", "-"} THEN Tail(s) ELSE s
        dots == {j \in 1..Len(body) : body[j] = "."}
        dot  == IF dots = {} THEN Len(body) + 1 ELSE CHOOSE j \in dots : TRUE
        ip   == SubSeq(body, 1, dot - 1)
        fp   == SubSeq(body, dot + 1, Len(body))
        f3   == SubSeq(fp \o <<"0","0","0">>, 1, 3)
        good == /\ Cardinality(dots) <= 1
                /\ Len(ip) + Len(fp) >= 1
                /\ \A j \in 1..Len(ip) : ip[j] \in Digits
                /\ \A j \in 1..Len(fp) : fp[j] \in Digits
        mag  == Min(UMax, DecVal(ip, 0)) * 1000 + DecVal(f3, 0)
    IN  [ok |-> good, val |-> IF ~good THEN 0 ELSE IF neg THEN 0 - mag ELSE mag]

\* ----------------------------------------------------------- the cursor
Panic == -1

\* F applied to the value of v, computed once (the code's "let x = v;").
Let(v, F(_)) == CHOOSE r \in {F(x) : x \in {v}} : TRUE

\* while bytes[*i] != d { *i += 1 }: the index of the first d at or after i;
\* an index past the end panics.
RECURSIVE ScanUntil(_, _, _)
ScanUntil(b, j, d) ==
    IF j >= Len(b) THEN Panic
    ELSE IF b[j + 1] = d THEN j
    ELSE ScanUntil(b, j + 1, d)

\* &bytes[start..end]
Slice(b, start, end) == SubSeq(b, start + 1, end)

\* *i += skip; let start = *i; while bytes[*i] != delim { *i += 1 }
\* and the span bytes[start..*i]; the cursor is left on the delimiter.
Field(b, j, skip, delim) ==
    Let(ScanUntil(b, j + skip, delim), LAMBDA e :
        [ok   |-> e # Panic,
         i    |-> e,
         span |-> IF e = Panic THEN <<>> ELSE Slice(b, j + skip, e)])

\* std::str::from_utf8(span).unwrap().parse().unwrap() at the field's type:
\* ok = FALSE where the unwrap panics.  (A String never fails; the buffers
\* are ASCII, so from_utf8 never fails.)
Parsed(type, span) ==
    CASE type = "u32"  -> [ok |-> ParseU32(span) # Err, val |-> ParseU32(span)]
      [] type = "f64"  -> ParseF64(span)
      [] type = "bool" -> [ok |-> ParseBool(span) # "err", val |-> ParseBool(span) = "true"]
      [] type = "str"  -> [ok |-> TRUE, val |-> span]

\* A run of fields decoded one after the other from cursor j: each row of
\* the layout is the skip before the field, the delimiter that ends it and
\* its type.  The cursor is left on the last delimiter.
RECURSIVE DecodeFields(_, _, _, _)
DecodeFields(b, j, layout, vals) ==
    IF layout = <<>> THEN [ok |-> TRUE, i |-> j, vals |-> vals]
    ELSE Let(Field(b, j, Head(layout).skip, Head(layout).delim), LAMBDA f :
         Let(Parsed(Head(layout).type, f.span), LAMBDA v :
             IF ~f.ok \/ ~v.ok THEN [ok |-> FALSE, i |-> j, vals |-> vals]
             ELSE DecodeFields(b, f.i, Tail(layout), Append(vals, v.val))))

\* ------------------------------------------------------- parse_anchors
\* *i += 1; ref_start up to ','; *i += 1; query_start up to '}'
AnchorLayout ==
    << [skip |-> 1, delim |-> ",", type |-> "u32"],
       [skip |-> 1, delim |-> "}", type |-> "u32"] >>

RECURSIVE ParseAnchors(_, _, _)
ParseAnchors(b, j, acc) ==
    IF j >= Len(b) THEN [ok |-> FALSE, i |-> j, anchors |-> acc]
    ELSE IF b[j + 1] = "]" THEN [ok |-> TRUE, i |-> j, anchors |-> acc]
    ELSE Let(DecodeFields(b, j, AnchorLayout, <<>>), LAMBDA f :
             IF ~f.ok THEN [ok |-> FALSE, i |-> j, anchors |-> acc]
             ELSE ParseAnchors(b, f.i + 1,
                     Append(acc, [ref_start   |-> f.vals[1],
                                  query_start |-> f.vals[2]])))

\* -------------------------------------------------------- parse_chains
\* The skips of lines 98..152: ref_id, score, query start and end, ref start
\* and end, is_revcomp; each field ends at ','.
ChainLayout ==
    << [skip |-> 8,  delim |-> ",", type |-> "u32"],
       [skip |-> 7,  delim |-> ",", type |-> "f64"],
       [skip |-> 13, delim |-> ",", type |-> "u32"],
       [skip |-> 11, delim |-> ",", type |-> "u32"],
       [skip |-> 11, delim |-> ",", type |-> "u32"],
       [skip |-> 9,  delim |-> ",", type |-> "u32"],
       [skip |-> 12, delim |-> ",", type |-> "bool"] >>

\* Chain { .. } as parse_chains pushes it: the detail fields at their defaults.
NewChain(v, anchors) ==
    [ref_id        |-> v[1],
     score         |-> v[2],
     qspan         |-> <<v[3], v[4]>>,
     rspan         |-> <<v[5], v[6]>>,
     is_revcomp    |-> v[7],
     anchors       |-> anchors,
     cigar         |-> <<>>,
     ref_start     |-> 0,
     considered    |-> FALSE,
     ssw_cigar     |-> <<>>,
     ssw_ref_start |-> 0]

RECURSIVE ParseChains(_, _, _)
ParseChains(b, j, acc) ==
    IF j >= Len(b) THEN [ok |-> FALSE, i |-> j, chains |-> acc]
    ELSE IF b[j + 1] = "]" THEN [ok |-> TRUE, i |-> j, chains |-> acc]
    ELSE Let(DecodeFields(b, j, ChainLayout, <<>>), LAMBDA f :
             IF ~f.ok THEN [ok |-> FALSE, i |-> j, chains |-> acc]
             ELSE Let(ParseAnchors(b, f.i + 10, <<>>), LAMBDA an :
                  IF ~an.ok THEN [ok |-> FALSE, i |-> j, chains |-> acc]
                  ELSE ParseChains(b, an.i + 2,
                          Append(acc, NewChain(f.vals, an.anchors)))))

\* -------------------------------------------------------- parse_cigars
\* *i += 1; cigar up to ','
CigarLayout == << [skip |-> 1, delim |-> ",", type |-> "str"] >>

\* *i += 9; ref_start up to ','; *i += 5; ssw_cigar up to ',';
\* *i += 12; ssw_ref_start up to ')'
DetailLayout ==
    << [skip |-> 9,  delim |-> ",", type |-> "u32"],
       [skip |-> 5,  delim |-> ",", type |-> "str"],
       [skip |-> 12, delim |-> ")", type |-> "u32"] >>

\* chains[n].cigar = cigar; ... chains[n].considered = considered
\* (k is the 0-based n; the caller has checked the index).
SetDetail(chains, k, cg, considered, d) ==
    [chains EXCEPT ![k + 1] =
        [@ EXCEPT !.cigar         = cg,
                  !.ref_start     = d[1],
                  !.ssw_cigar     = d[2],
                  !.ssw_ref_start = d[3],
                  !.considered    = considered]]

\* chains[n] with n >= chains.len() panics (the slice index is checked).
RECURSIVE ParseCigars(_, _, _, _)
ParseCigars(b, j, chains, k) ==
    IF j >= Len(b) THEN [ok |-> FALSE, i |-> j, chains |-> chains, n |-> k]
    ELSE IF b[j + 1] = "]" THEN [ok |-> TRUE, i |-> j, chains |-> chains, n |-> k]
    ELSE Let(DecodeFields(b, j, CigarLayout, <<>>), LAMBDA cg :
             IF ~cg.ok \/ cg.i + 16 >= Len(b)
             THEN [ok |-> FALSE, i |-> j, chains |-> chains, n |-> k]
             ELSE Let(DecodeFields(b, cg.i + 16, DetailLayout, <<>>), LAMBDA d :
                  IF ~d.ok \/ k >= Len(chains)
                  THEN [ok |-> FALSE, i |-> j, chains |-> chains, n |-> k]
                  ELSE Let(SetDetail(chains, k, cg.vals[1],
                                     b[cg.i + 16 + 1] = "1", d.vals), LAMBDA updated :
                       ParseCigars(b, d.i + 1, updated, k + 1))))

\* --------------------------------------------------------- parse_reads
\* *i += 7; name up to '\n'; *i += 3; read_len up to ','; *i += 3; k up to '\n'
ReadLayout ==
    << [skip |-> 7, delim |-> "\n", type |-> "str"],
       [skip |-> 3, delim |-> ",",  type |-> "u32"],
       [skip |-> 3, delim |-> "\n", type |-> "u32"] >>

\* for (idx, chain) in chains.iter_mut().enumerate() { chain.considered = idx == 0 }
MarkFirst(chains) ==
    [c \in 1..Len(chains) |-> [chains[c] EXCEPT !.considered = (c = 1)]]

\* A decoder without the empty test: no read is ever dropped.
IsEmpty_NeverTaken(chains) == FALSE

\* chains.is_empty()
IsEmpty(chains) == Len(chains) = 0

NoRead == [name |-> <<>>, read_len |-> 0, k |-> 0, fwd_anchors |-> <<>>,
           rev_anchors |-> <<>>, chains |-> <<>>]

NewRead(h, fw, rv, chains) ==
    [name        |-> h[1],
     read_len    |-> h[2],
     k           |-> h[3],
     fwd_anchors |-> fw,
     rev_anchors |-> rv,
     chains      |-> chains]

Panicked(j) ==
    [ok |-> FALSE, some |-> FALSE, i |-> j, read |-> NoRead, n |-> 0, calls |-> <<>>]

\* The tail of parse_reads, from "if chains.is_empty()" on, with the cursor
\* already advanced past the chain list (*i += 2).  calls lists, for each
\* nested list decoder that ran, the cursor it was entered and left with.
ReadTail(b, j, mo, h, fw, rv, ch, calls) ==
    IF IsEmpty(ch.chains)
    THEN [ok |-> TRUE, some |-> FALSE, i |-> ch.i + 2, read |-> NoRead, n |-> 0,
          calls |-> calls]
    ELSE IF mo
    THEN [ok |-> TRUE, some |-> TRUE, i |-> ch.i + 2,
          read |-> NewRead(h, fw, rv, MarkFirst(ch.chains)), n |-> 0,
          calls |-> calls]
    ELSE Let(ParseCigars(b, ch.i + 2 + 8, ch.chains, 0), LAMBDA cg :
             IF ~cg.ok THEN [Panicked(j) EXCEPT !.n = cg.n]
             ELSE [ok |-> TRUE, some |-> TRUE, i |-> cg.i,
                   read |-> NewRead(h, fw, rv, cg.chains), n |-> cg.n,
                   calls |-> Append(calls, <<ch.i + 2 + 8, cg.i>>)])

\* The result of parse_reads started with the cursor on a "Query: " marker:
\* ok = FALSE is a panic; some = FALSE is None; i is the cursor it leaves;
\* n is parse_cigars' count of detail entries (0 when it does not run).
ParseReads(b, j, mo) ==
    Let(DecodeFields(b, j, ReadLayout, <<>>), LAMBDA h :
        IF ~h.ok THEN Panicked(j)
        ELSE Let(ParseAnchors(b, h.i + 29, <<>>), LAMBDA fw :
             IF ~fw.ok THEN Panicked(j)
             ELSE Let(ParseAnchors(b, fw.i + 30, <<>>), LAMBDA rv :
                  IF ~rv.ok THEN Panicked(j)
                  ELSE Let(ParseChains(b, rv.i + 9, <<>>), LAMBDA ch :
                       IF ~ch.ok THEN Panicked(j)
                       ELSE ReadTail(b, j, mo, h.vals, fw.anchors, rv.anchors, ch,
                                     << <<j + 7, h.i>>, <<h.i + 29, fw.i>>,
                                        <<fw.i + 30, rv.i>>, <<rv.i + 9, ch.i>> >>)))))

\* ---------------------------------------------------------- parse_file
\* &bytes[i..i + 7] == b"Query: "
QueryMarker == <<"Q","u","e","r","y",":"," ">>
HasMarker(b, j) == SubSeq(b, j + 1, j + 7) = QueryMarker

\* while i + 7 < bytes.len()
LoopCond == i + 7 < Len(bytes)

\* A loop whose else branch forgets the increment.
NextByte_Stuck(j) == j

\* the else branch: i += 1
NextByte(j) == j + 1

\* if let Some(max) = n { if reads.len() >= max { break; } }
CapReached(len) == n.some /\ len >= n.max

\* ------------------------------------------------------ the input traces
\* The text between the fields.  The source fixes only the LENGTH of each
\* literal (the skip counts of parse_reads, parse_chains and parse_cigars)
\* and the delimiter that ends each field; the wording is the emitter's.
LenLabel == <<"\n","L","=">>
KLabel == <<",","k","=">>
FwdLabel == <<"\n","f","o","r","w","a","r","d","_","a","n","c","h","o","r","s","(","r","e","f",",","q","u","e","r","y",")","=","[">>
RevLabel == <<"]","\n","r","e","v","e","r","s","e","_","a","n","c","h","o","r","s","(","r","e","f",",","q","u","e","r","y",")","=","[">>
ChainsLabel == <<"]","\n","c","h","a","i","n","s","[">>
RefIdLabel == <<"(","r","e","f","_","i","d","=">>
BadRefIdLabel == <<"(","R","E","F","-","I","D","=">>
ScoreLabel == <<",","s","c","o","r","e","=">>
QStartLabel == <<",","q","u","e","r","y","_","s","t","a","r","t","=">>
QEndLabel == <<",","q","u","e","r","y","_","e","n","d","=">>
RStartLabel == <<",","r","e","f","_","s","t","a","r","t","=">>
REndLabel == <<",","r","e","f","_","e","n","d","=">>
RevcompLabel == <<",","i","s","_","r","e","v","c","o","m","p","=">>
AnchorsLabel == <<",","a","n","c","h","o","r","s","=","[">>
ChainClose == <<"]",")">>
ChainsClose == <<"]","\n">>
CigarsLabel == <<"c","i","g","a","r","s","=","[">>
ConsideredLabel == <<",","w","a","s","_","c","o","n","s","i","d","e","r","e","d","=">>
CigRefLabel == <<",","r","s","t","a","r","t","=">>
SswLabel == <<",","s","s","w","=">>
SswRefLabel == <<",","s","s","w","_","r","s","t","a","r","t","=">>

DigitChar(d) == <<"0","1","2","3","4","5","6","7","8","9">>[d + 1]

RECURSIVE FormatNat(_)
FormatNat(v) ==
    IF v < 10 THEN <<DigitChar(v)>> ELSE Append(FormatNat(v \div 10), DigitChar(v % 10))

RECURSIVE Concat(_)
Concat(ss) == IF ss = <<>> THEN <<>> ELSE Head(ss) \o Concat(Tail(ss))

\* "{ref,query}" with the opening brace replaced when the trace is broken there.
EmitAnchor(a, open) ==
    <<open>> \o FormatNat(a[1]) \o <<",">> \o FormatNat(a[2]) \o <<"}">>

EmitAnchors(as, open) == Concat([j \in 1..Len(as) |-> EmitAnchor(as[j], open)])

\* What the emitter prints for the c-th chain of a read.
ChainAnchors(c) == [j \in 1..c |-> <<100 * c + 10 * j, 5 * j>>]

EmitChain(c, label, open) ==
    Concat(<< label, FormatNat(c),
              ScoreLabel, FormatNat(c) \o <<".","5","0">>,
              QStartLabel, FormatNat(c),
              QEndLabel, FormatNat(40 + c),
              RStartLabel, FormatNat(100 * c),
              REndLabel, FormatNat(100 * c + 50),
              RevcompLabel, IF c % 2 = 0 THEN <<"t","r","u","e">> ELSE <<"f","a","l","s","e">>,
              AnchorsLabel, EmitAnchors(ChainAnchors(c), open),
              ChainClose >>)

\* What the emitter prints for the d-th chain-detail entry of a read.
DetailCigar(d) == FormatNat(d) \o <<"M">>
DetailSsw(d) == FormatNat(d) \o <<"I">>

EmitDetail(d) ==
    Concat(<< <<"(">>, DetailCigar(d),
              ConsideredLabel, IF d = 1 THEN <<"1">> ELSE <<"0">>,
              CigRefLabel, FormatNat(100 * d + 1),
              SswLabel, DetailSsw(d),
              SswRefLabel, FormatNat(100 * d + 2),
              <<")">> >>)

\* One read record: kind.nc chains, kind.nd detail entries, and kind.defect
\* one of
\*   "none"      the layout as emitted
\*   "label"     the first chain's "(ref_id=" label is other text
\*   "punct"     the "{" opening each anchor of the first chain is "("
\*   "numeral"   the read length is not a number
\*   "truncated" the buffer ends inside the first chain
ReadName(r) == <<"r", DigitChar(r)>>

EmitRead(r, kind) ==
    LET lab(c)  == IF kind.defect = "label" /\ c = 1 THEN BadRefIdLabel ELSE RefIdLabel
        open(c) == IF kind.defect = "punct" /\ c = 1 THEN "(" ELSE "{"
        len     == IF kind.defect = "numeral" THEN <<"1","x","0">> ELSE FormatNat(100 + r)
        head    == Concat(<< QueryMarker, ReadName(r),
                             LenLabel, len,
                             KLabel, FormatNat(20),
                             FwdLabel, EmitAnchors(<< <<7, 1>> >>, "{"),
                             RevLabel, EmitAnchors(<<>>, "{"),
                             ChainsLabel >>)
        chains  == Concat([c \in 1..kind.nc |-> EmitChain(c, lab(c), open(c))])
        details == Concat([d \in 1..kind.nd |-> EmitDetail(d)])
        whole   == Concat(<< head, chains, ChainsClose, CigarsLabel, details, ChainsClose >>)
    IN  IF kind.defect = "truncated"
        THEN SubSeq(whole, 1, Len(head) + Len(RefIdLabel) + 1)
        ELSE whole

Emit(t) == Concat([r \in 1..Len(t) |-> EmitRead(r, t[r])])

\* An ordinary record: no chains (dropped by the decoder), or MaxChains
\* chains with one detail entry each.
GoodKinds == {[nc |-> c, nd |-> c, defect |-> "none"] : c \in {0, MaxChains}}

\* A record out of the ordinary: a detail list one entry short or one entry
\* long, or a one-chain record with one of the format violations.
OddKinds ==
    {[nc |-> MaxChains, nd |-> d, defect |-> "none"] : d \in {MaxChains - 1, MaxChains + 1}}
    \cup {[nc |-> 1, nd |-> 1, defect |-> x] : x \in {"label", "punct", "numeral", "truncated"}}

RECURSIVE SeqsUpTo(_, _)
SeqsUpTo(S, len) ==
    IF len = 0 THEN {<<>>}
    ELSE LET shorter == SeqsUpTo(S, len - 1)
         IN  shorter \cup {Append(s, x) : s \in {q \in shorter : Len(q) = len - 1}, x \in S}

\* Traces of up to MaxReads records, at most one of them out of the ordinary.
Traces ==
    {t \in SeqsUpTo(GoodKinds \cup OddKinds, MaxReads) :
        Cardinality({r \in 1..Len(t) : t[r] \in OddKinds}) <= 1}

Caps == {[some |-> FALSE, max |-> 0]} \cup {[some |-> TRUE, max |-> m] : m \in 0..MaxCap}

\* --------------------------------------------------------------- actions
ScanInit ==
    /\ \E t \in Traces :
          /\ bytes = Emit(t)
          /\ defect = {[kind |-> t[r].defect, name |-> ReadName(r)] :
                           r \in {x \in 1..Len(t) : t[x].defect # "none"}}
    /\ n \in Caps
    /\ mapping_only \in BOOLEAN
    /\ i = 0
    /\ reads = <<>>
    /\ detail_n = <<>>
    /\ pc = "scan"

ScanIdle ==
    /\ bytes = <<>> /\ defect = {} /\ n = [some |-> FALSE, max |-> 0]
    /\ mapping_only = FALSE /\ i = 0 /\ reads = <<>> /\ detail_n = <<>> /\ pc = "idle"

CigarIdle ==
    /\ cigar = <<>> /\ cigar_ref_start = 0 /\ path = <<>> /\ ref_pos = 0
    /\ query_pos = 0 /\ ci = 0 /\ cpc = "idle"

PlotIdle ==
    /\ read = NoRead /\ chain = <<>> /\ plot_mapping_only = FALSE
    /\ ref_plot_start = 0 /\ ref_plot_end = 0 /\ filtered_anchors = <<>>
    /\ fi = 0 /\ ppc = "idle"

FanIdle ==
    /\ out_reads = <<>> /\ dirs = {} /\ started = {} /\ writes = {}

\* No "Query: " at the cursor: i += 1.
SkipByte ==
    /\ pc = "scan" /\ LoopCond
    /\ ~HasMarker(bytes, i)
    /\ i' = NextByte(i)
    /\ UNCHANGED <<bytes, n, mapping_only, reads, detail_n, pc, defect>>
    /\ UNCHANGED <<cigar_vars, plot_vars, fan_vars>>

\* parse_reads returned Some(read): push it, then test the cap.
AcceptRead ==
    /\ pc = "scan" /\ LoopCond
    /\ HasMarker(bytes, i)
    /\ \E r \in {ParseReads(bytes, i, mapping_only)} :
           /\ r.ok /\ r.some
           /\ reads' = Append(reads, r.read)
           /\ detail_n' = Append(detail_n, r.n)
           /\ i' = r.i
           /\ pc' = IF CapReached(Len(reads) + 1) THEN "done" ELSE "scan"
    /\ UNCHANGED <<bytes, n, mapping_only, defect>>
    /\ UNCHANGED <<cigar_vars, plot_vars, fan_vars>>

\* parse_reads returned None (no chains): nothing is pushed.
DropRead ==
    /\ pc = "scan" /\ LoopCond
    /\ HasMarker(bytes, i)
    /\ \E r \in {ParseReads(bytes, i, mapping_only)} :
           /\ r.ok /\ ~r.some
           /\ i' = r.i
    /\ UNCHANGED <<bytes, n, mapping_only, reads, detail_n, pc, defect>>
    /\ UNCHANGED <<cigar_vars, plot_vars, fan_vars>>

\* An unwrap() or an index inside parse_reads panicked: parse_file never returns.
DecodePanic ==
    /\ pc = "scan" /\ LoopCond
    /\ HasMarker(bytes, i)
    /\ ~ParseReads(bytes, i, mapping_only).ok
    /\ pc' = "panic"
    /\ UNCHANGED <<bytes, n, mapping_only, i, reads, detail_n, defect>>
    /\ UNCHANGED <<cigar_vars, plot_vars, fan_vars>>

\* The loop condition fails: parse_file returns reads.
FinishScan ==
    /\ pc = "scan" /\ ~LoopCond
    /\ pc' = "done"
    /\ UNCHANGED <<bytes, n, mapping_only, i, reads, detail_n, defect>>
    /\ UNCHANGED <<cigar_vars, plot_vars, fan_vars>>

Init == ScanInit /\ CigarIdle /\ PlotIdle /\ FanIdle

Next == SkipByte \/ AcceptRead \/ DropRead \/ DecodePanic \/ FinishScan

Spec == Init /\ [][Next]_vars

\* parse_file is one sequential loop: a step that can be taken is taken.
FairSpec == Spec /\ WF_vars(Next)

\* ----------------------------------------------------- scanner claims
\* "Query: " markers at offsets below j.
Markers(b, j) ==
    Cardinality({x \in 0..(j - 1) : x + 7 <= Len(b) /\ HasMarker(b, x)})

\* C1: every Read in the list parse_file accumulates and returns, in
\* mapping-only and in full mode, has at least one chain: a record whose
\* chain list is empty is never pushed.
C1_ReadsHaveChains ==
    \A r \in 1..Len(reads) : Len(reads[r].chains) >= 1

\* parse_file has returned a non-empty list although it decoded a record it
\* did not push (more markers passed than reads kept, in an intact trace).
C1_Witness ==
    /\ pc = "done" /\ defect = {}
    /\ reads # <<>>
    /\ Markers(bytes, i) > Len(reads)

\* C2 as stated: with a cap Some(max), max = 0 included, parse_file never
\* returns more than max Reads.
C2_CapNeverExceeded ==
    (pc = "done" /\ n.some) => Len(reads) <= n.max

\* C7 as stated: in full mode every returned Read had all of its chains
\* updated by the detail pass (a detail list of another length is fatal).
\* Stated for the uncapped scan, which decodes every record.
C7_DetailLengthChecked ==
    (pc = "done" /\ ~n.some /\ ~mapping_only) =>
        \A r \in 1..Len(reads) : detail_n[r] = Len(reads[r].chains)

\* C8 as stated: a format violation inside a read record aborts the scan, so
\* parse_file never returns a list holding a Read built from such a record.
\* Stated for the uncapped scan, which decodes every record.
C8_FormatViolationFatal ==
    (pc = "done" /\ ~n.some) =>
        \A d \in defect : \A r \in 1..Len(reads) : reads[r].name # d.name

\* C10: the scan loop terminates (it returns or it panics); each iteration
\* that does not panic moves the cursor forward, by 1 without a marker at
\* the cursor and by at least 7 through parse_reads; and no nested decoder
\* of parse_reads leaves the cursor behind where it was entered.
C10_Terminates ==
    /\ <>(pc \in {"done", "panic"})
    /\ [][(pc = "scan" /\ LoopCond /\ pc' # "panic") =>
              IF HasMarker(bytes, i) THEN i' >= i + 7 ELSE i' = i + 1]_vars
    /\ []((pc = "scan" /\ LoopCond /\ HasMarker(bytes, i)) =>
              \A r \in {ParseReads(bytes, i, mapping_only)} :
                  \A c \in 1..Len(r.calls) :
                      /\ r.calls[c][1] <= r.calls[c][2]
                      /\ r.calls[c][2] <= r.i
                      /\ c > 1 => r.calls[c - 1][2] <= r.calls[c][1])

\* The scan has returned after skipping bytes, dropping a record and
\* decoding a full-mode record with its detail list.
C10_Witness ==
    /\ pc = "done" /\ ~mapping_only
    /\ reads # <<>>
    /\ Markers(bytes, i) > Len(reads)
    /\ i > 7 * Markers(bytes, i)

\* ------------------------------------------------- parse_cigar_to_path
\* while i < chars.len() && chars[i].is_ascii_digit() { num_str.push(..); i += 1 }
\* the index the inner loop stops at.
RECURSIVE DigitsEnd(_, _)
DigitsEnd(c, j) ==
    IF j < Len(c) /\ c[j + 1] \in Digits THEN DigitsEnd(c, j + 1) ELSE j

\* num_str.parse().unwrap_or(0)
ParseCount(num_str) == IF ParseU32(num_str) = Err THEN 0 ELSE ParseU32(num_str)

\* A variant that also draws hard clips: 'H' treated like 'S'.
IsPathOp_WithH(op) == op \in {"M", "=", "X", "I", "D", "S", "N", "H"}

\* The arms of the match that push a vertex.
IsPathOp(op) == op \in {"M", "=", "X", "I", "D", "S", "N"}

\* ref_pos += count in the arms 'M' | '=' | 'X', 'D' and 'N'.
RefAdvance(op, count) == IF op \in {"M", "=", "X", "D", "N"} THEN count ELSE 0

\* A variant in which a deletion also consumes the query.
QueryAdvance_OnDelete(op, count) ==
    IF op \in {"M", "=", "X", "I", "S", "D"} THEN count ELSE 0

\* query_pos += count in the arms 'M' | '=' | 'X', 'I' and 'S'.
QueryAdvance(op, count) == IF op \in {"M", "=", "X", "I", "S"} THEN count ELSE 0

CigarAlphabet == {"1", "2", "M", "=", "X", "I", "S", "D", "N", "H"}

\* Every string of up to MaxCigarLen characters, the example of the
\* specification, a run length of exactly u32::MAX and one ten times larger.
CigarInputs ==
    SeqsUpTo(CigarAlphabet, MaxCigarLen)
    \cup { <<"3","M","2","I","2","D">>,
           <<"1","2","M","H","3","D","7">>,
           FormatNat(UMax) \o <<"M">>,
           FormatNat(UMax) \o <<"0","M","1","I">> }

RefStarts == {0, 10, UMax}

CigarInit ==
    /\ cigar \in CigarInputs
    /\ cigar_ref_start \in RefStarts
    /\ path = << <<cigar_ref_start, 0>> >>
    /\ ref_pos = cigar_ref_start
    /\ query_pos = 0
    /\ ci = 0
    /\ cpc = "loop"

\* One iteration of the outer loop that reads a run and pushes its vertex.
CigarPush ==
    /\ cpc = "loop" /\ ci < Len(cigar)
    /\ \E e \in {DigitsEnd(cigar, ci)} :
          /\ e < Len(cigar)
          /\ IsPathOp(cigar[e + 1])
          /\ \E count \in {ParseCount(SubSeq(cigar, ci + 1, e))} :
             \E r \in {ref_pos + RefAdvance(cigar[e + 1], count)} :
             \E q \in {query_pos + QueryAdvance(cigar[e + 1], count)} :
                /\ r <= UMax /\ q <= UMax
                /\ ref_pos' = r
                /\ query_pos' = q
                /\ path' = Append(path, <<r, q>>)
          /\ ci' = e + 1
    /\ UNCHANGED <<cigar, cigar_ref_start, cpc>>
    /\ UNCHANGED <<scan_vars, plot_vars, fan_vars>>

\* The same iteration when a += overflows u32: a panic where overflow
\* checks are compiled in, the wrapped sum where they are not.
CigarOverflow ==
    /\ cpc = "loop" /\ ci < Len(cigar)
    /\ \E e \in {DigitsEnd(cigar, ci)} :
          /\ e < Len(cigar)
          /\ IsPathOp(cigar[e + 1])
          /\ \E count \in {ParseCount(SubSeq(cigar, ci + 1, e))} :
             \E r \in {ref_pos + RefAdvance(cigar[e + 1], count)} :
             \E q \in {query_pos + QueryAdvance(cigar[e + 1], count)} :
                /\ r > UMax \/ q > UMax
                /\ \/ /\ cpc' = "panic"
                      /\ UNCHANGED <<ref_pos, query_pos, path, ci>>
                   \/ /\ ref_pos' = r % (UMax + 1)
                      /\ query_pos' = q % (UMax + 1)
                      /\ path' = Append(path, <<r % (UMax + 1), q % (UMax + 1)>>)
                      /\ ci' = e + 1
                      /\ UNCHANGED cpc
    /\ UNCHANGED <<cigar, cigar_ref_start>>
    /\ UNCHANGED <<scan_vars, plot_vars, fan_vars>>

\* The arm "_ => {}": the run is consumed, nothing else changes.
CigarIgnore ==
    /\ cpc = "loop" /\ ci < Len(cigar)
    /\ \E e \in {DigitsEnd(cigar, ci)} :
          /\ e < Len(cigar)
          /\ ~IsPathOp(cigar[e + 1])
          /\ ci' = e + 1
    /\ UNCHANGED <<cigar, cigar_ref_start, path, ref_pos, query_pos, cpc>>
    /\ UNCHANGED <<scan_vars, plot_vars, fan_vars>>

\* if i >= chars.len() { break; }: digits with no operation after them.
CigarBreak ==
    /\ cpc = "loop" /\ ci < Len(cigar)
    /\ DigitsEnd(cigar, ci) >= Len(cigar)
    /\ ci' = DigitsEnd(cigar, ci)
    /\ cpc' = "done"
    /\ UNCHANGED <<cigar, cigar_ref_start, path, ref_pos, query_pos>>
    /\ UNCHANGED <<scan_vars, plot_vars, fan_vars>>

\* The loop condition fails: path is returned.
CigarReturn ==
    /\ cpc = "loop" /\ ci >= Len(cigar)
    /\ cpc' = "done"
    /\ UNCHANGED <<cigar, cigar_ref_start, path, ref_pos, query_pos, ci>>
    /\ UNCHANGED <<scan_vars, plot_vars, fan_vars>>

InitCigar == ScanIdle /\ CigarInit /\ PlotIdle /\ FanIdle

NextCigar == CigarPush \/ CigarOverflow \/ CigarIgnore \/ CigarBreak \/ CigarReturn

SpecCigar == InitCigar /\ [][NextCigar]_vars

\* ------------------------------------------------------- CIGAR claims
\* The runs of a CIGAR string, read off the string itself: a run ends at
\* each character that is not a digit and owns the digits just before it.
RunEnds(c) == {p \in 1..Len(c) : c[p] \notin Digits}

RunStart(c, p) ==
    LET before == {x \in RunEnds(c) : x < p}
    IN  IF before = {} THEN 1 ELSE 1 + CHOOSE x \in before : \A y \in before : y <= x

\* The run length as a number: 0 when there are no digits or they exceed u32.
RunCount(c, p) ==
    LET d == SubSeq(c, RunStart(c, p), p - 1)
    IN  IF d = <<>> THEN 0 ELSE IF DecVal(d, 0) > UMax THEN 0 ELSE DecVal(d, 0)

\* The k-th smallest element of a set of positions.
Nth(S, k) == CHOOSE p \in S : Cardinality({x \in S : x < p}) = k - 1

DrawnRuns(c) == {p \in RunEnds(c) : c[p] \in {"M", "=", "X", "I", "S", "D", "N"}}

RefStep(c, p) == IF c[p] \in {"M", "=", "X", "D", "N"} THEN RunCount(c, p) ELSE 0
QueryStep(c, p) == IF c[p] \in {"M", "=", "X", "I", "S"} THEN RunCount(c, p) ELSE 0

RECURSIVE SumOver(_, _, _)
SumOver(S, c, which) ==
    IF S = {} THEN 0
    ELSE LET p == CHOOSE x \in S : TRUE
         IN  Min(UMax + 1, (IF which = "ref" THEN RefStep(c, p) ELSE QueryStep(c, p))
                            + SumOver(S \ {p}, c, which))

SumsFit(c, start) ==
    /\ start + SumOver(RunEnds(c), c, "ref") <= UMax
    /\ SumOver(RunEnds(c), c, "query") <= UMax

\* C3: when the sums fit in u32, the returned path begins with
\* (ref_start, 0) and then holds, for each run in string order, the previous
\* vertex advanced by (+count, +count) for M/=/X, (0, +count) for I/S and
\* (+count, 0) for D/N; a run with another code adds no vertex and moves
\* neither position; a missing or unparsable length counts as 0.
C3_PathFollowsRuns ==
    (cpc = "done" /\ SumsFit(cigar, cigar_ref_start)) =>
        /\ path[1] = <<cigar_ref_start, 0>>
        /\ Len(path) = 1 + Cardinality(DrawnRuns(cigar))
        /\ \A k \in 1..Cardinality(DrawnRuns(cigar)) :
              \A p \in {Nth(DrawnRuns(cigar), k)} :
                  path[k + 1] = <<path[k][1] + RefStep(cigar, p),
                                  path[k][2] + QueryStep(cigar, p)>>
        /\ <<ref_pos, query_pos>> = path[Len(path)]

\* The example of the specification has been walked to its end.
C3_Witness ==
    /\ cpc = "done"
    /\ cigar = <<"3","M","2","I","2","D">> /\ cigar_ref_start = 10
    /\ path = << <<10, 0>>, <<13, 3>>, <<13, 5>>, <<15, 5>> >>

\* C4 as stated: the path has length 1 + the number of runs in the string,
\* and length 1 exactly when the string has no runs.
C4_LengthCountsAllRuns ==
    cpc = "done" =>
        /\ Len(path) = 1 + Cardinality(RunEnds(cigar))
        /\ (Len(path) = 1) <=> (RunEnds(cigar) = {})

\* C4 amended: the path has length 1 + the number of runs whose operation
\* code is one of M, =, X, I, S, D, N, and length 1 exactly when the string
\* has no such run.
C4_LengthCountsDrawnRuns ==
    cpc = "done" =>
        /\ Len(path) = 1 + Cardinality(DrawnRuns(cigar))
        /\ (Len(path) = 1) <=> (DrawnRuns(cigar) = {})

\* A string with a drawn run and an ignored one has been walked: 2 vertices.
C4_Witness ==
    /\ cpc = "done"
    /\ Cardinality(RunEnds(cigar)) = 2
    /\ Cardinality(DrawnRuns(cigar)) = 1
    /\ Len(path) = 2

\* ------------------------------------- plot_chain: window and anchors
\* A subtraction that wraps instead of saturating.
SaturatingSub_Wrapping(a, b) == (a - b) % (UMax + 1)

\* u32::saturating_sub
SaturatingSub(a, b) == IF a >= b THEN a - b ELSE 0

\* let padding = read.read_len / 10;
Padding(rd) == rd.read_len \div 10

\* The subtrahend side of the window: ref_start, or ref_start.min(ssw_ref_start).
WindowLow(rd, ch, mo) ==
    SaturatingSub(IF mo THEN ch.rspan[1] ELSE Min(ch.rspan[1], ch.ssw_ref_start),
                  Padding(rd))

\* ref_end + padding, or max_ref_start + padding + read.read_len, before
\* the sum is cut to u32.
WindowHigh(rd, ch, mo) ==
    IF mo THEN ch.rspan[2] + Padding(rd)
    ELSE Max(ch.rspan[1], ch.ssw_ref_start) + Padding(rd) + rd.read_len

\* if chain.is_revcomp { &read.rev_anchors } else { &read.fwd_anchors }
AnchorsToPlot(rd, ch) == IF ch.is_revcomp THEN rd.rev_anchors ELSE rd.fwd_anchors

\* A filter that tests only where the anchor starts.
InWindow_StartOnly(start, k, w0, w1) == start >= w0 /\ start <= w1

\* anchor.ref_start >= ref_plot_start && anchor.ref_start + read.k <= ref_plot_end
\* with the sum already known to fit.
InWindow(start, k, w0, w1) == start >= w0 /\ start + k <= w1

\* The && evaluates the sum only after the first test holds.
SumOverflows(start, k, w0) == start >= w0 /\ start + k > UMax

AnchorStarts == {0, 95, 190, 204, UMax}

MkAnchor(start) == [ref_start |-> start, query_start |-> 1]

Pools == {[j \in 1..Len(p) |-> MkAnchor(p[j])] : p \in SeqsUpTo(AnchorStarts, MaxPool)}

RevPools == { <<>>, <<MkAnchor(96), MkAnchor(204), MkAnchor(190)>> }

Spans == { <<0, 10>>, <<100, 200>>, <<3, 10>>, <<UMax - 2, UMax>> }

PlotInit ==
    /\ \E len \in {0, 9, 50, UMax}, kk \in {0, 10}, fw \in Pools, rv \in RevPools :
          read = [name |-> <<"r">>, read_len |-> len, k |-> kk,
                  fwd_anchors |-> fw, rev_anchors |-> rv, chains |-> <<>>]
    /\ \E sp \in Spans, ssw \in {0, 150}, rc \in BOOLEAN :
          chain = [rspan |-> sp, ssw_ref_start |-> ssw, is_revcomp |-> rc]
    /\ plot_mapping_only \in BOOLEAN
    /\ ref_plot_start = 0 /\ ref_plot_end = 0
    /\ filtered_anchors = <<>>
    /\ fi = 0
    /\ ppc = "start"

\* Lines 400-414: the window, all sums within u32.
PlanWindow ==
    /\ ppc = "start"
    /\ WindowHigh(read, chain, plot_mapping_only) <= UMax
    /\ ref_plot_start' = WindowLow(read, chain, plot_mapping_only)
    /\ ref_plot_end' = WindowHigh(read, chain, plot_mapping_only)
    /\ ppc' = "window"
    /\ UNCHANGED <<read, chain, plot_mapping_only, filtered_anchors, fi>>
    /\ UNCHANGED <<scan_vars, cigar_vars, fan_vars>>

\* The same lines when the upper sum overflows u32: a panic where overflow
\* checks are compiled in, the wrapped sum where they are not.
PlanWindowOverflow ==
    /\ ppc = "start"
    /\ WindowHigh(read, chain, plot_mapping_only) > UMax
    /\ \/ /\ ppc' = "panic"
          /\ UNCHANGED <<ref_plot_start, ref_plot_end>>
       \/ /\ ref_plot_start' = WindowLow(read, chain, plot_mapping_only)
          /\ ref_plot_end' = WindowHigh(read, chain, plot_mapping_only) % (UMax + 1)
          /\ ppc' = "window"
    /\ UNCHANGED <<read, chain, plot_mapping_only, filtered_anchors, fi>>
    /\ UNCHANGED <<scan_vars, cigar_vars, fan_vars>>

\* Lines 448-453, one anchor of the pool per step, in pool order.
FilterAnchor ==
    /\ ppc = "window"
    /\ fi < Len(AnchorsToPlot(read, chain))
    /\ \E a \in {AnchorsToPlot(read, chain)[fi + 1]} :
          /\ ~SumOverflows(a.ref_start, read.k, ref_plot_start)
          /\ filtered_anchors' =
                IF InWindow(a.ref_start, read.k, ref_plot_start, ref_plot_end)
                THEN Append(filtered_anchors, fi + 1)
                ELSE filtered_anchors
    /\ fi' = fi + 1
    /\ UNCHANGED <<read, chain, plot_mapping_only, ref_plot_start, ref_plot_end, ppc>>
    /\ UNCHANGED <<scan_vars, cigar_vars, fan_vars>>

\* The same step when anchor.ref_start + read.k overflows u32.
FilterAnchorOverflow ==
    /\ ppc = "window"
    /\ fi < Len(AnchorsToPlot(read, chain))
    /\ \E a \in {AnchorsToPlot(read, chain)[fi + 1]} :
          /\ SumOverflows(a.ref_start, read.k, ref_plot_start)
          /\ \/ /\ ppc' = "panic"
                /\ UNCHANGED <<filtered_anchors, fi>>
             \/ /\ filtered_anchors' =
                      IF (a.ref_start + read.k) % (UMax + 1) <= ref_plot_end
                      THEN Append(filtered_anchors, fi + 1)
                      ELSE filtered_anchors
                /\ fi' = fi + 1
                /\ UNCHANGED ppc
    /\ UNCHANGED <<read, chain, plot_mapping_only, ref_plot_start, ref_plot_end>>
    /\ UNCHANGED <<scan_vars, cigar_vars, fan_vars>>

\* .collect(): the pool is exhausted.
FilterDone ==
    /\ ppc = "window"
    /\ fi >= Len(AnchorsToPlot(read, chain))
    /\ ppc' = "filtered"
    /\ UNCHANGED <<read, chain, plot_mapping_only, ref_plot_start, ref_plot_end,
                   filtered_anchors, fi>>
    /\ UNCHANGED <<scan_vars, cigar_vars, fan_vars>>

InitPlot == ScanIdle /\ CigarIdle /\ PlotInit /\ FanIdle

NextPlot ==
    PlanWindow \/ PlanWindowOverflow \/ FilterAnchor \/ FilterAnchorOverflow \/ FilterDone

SpecPlot == InitPlot /\ [][NextPlot]_vars

\* ----------------------------------------------------- plot claims
\* C5: pad = read_len / 10; once the window is computed its lower bound is
\* max(0, rspan0 - pad) in mapping-only mode and
\* max(0, min(rspan0, ssw_ref_start) - pad) in full mode, for every u32
\* input (it is never below 0 and never wraps); its upper bound is
\* rspan1 + pad, resp. max(rspan0, ssw_ref_start) + pad + read_len, whenever
\* that sum is a u32.
C5_Window ==
    ppc \in {"window", "filtered"} =>
        \A pad \in {read.read_len \div 10} :
            IF plot_mapping_only
            THEN /\ ref_plot_start = Max(0, chain.rspan[1] - pad)
                 /\ chain.rspan[2] + pad <= UMax =>
                        ref_plot_end = chain.rspan[2] + pad
            ELSE /\ ref_plot_start =
                        Max(0, Min(chain.rspan[1], chain.ssw_ref_start) - pad)
                 /\ Max(chain.rspan[1], chain.ssw_ref_start) + pad + read.read_len <= UMax =>
                        ref_plot_end =
                            Max(chain.rspan[1], chain.ssw_ref_start) + pad + read.read_len

\* rspan = [0, 10], read_len = 50, mapping-only: the window is [0, 15].
C5_Witness ==
    /\ ppc = "window" /\ plot_mapping_only
    /\ chain.rspan = <<0, 10>> /\ read.read_len = 50
    /\ ref_plot_start = 0 /\ ref_plot_end = 15

\* C6: the background anchors selected come from rev_anchors for a
\* reverse-complement chain and from fwd_anchors otherwise, and are exactly
\* the anchors of that pool with ref_start >= w0 and ref_start + k <= w1,
\* in pool order (every ref_start + k of the pool being a u32).
C6_Filter ==
    ppc = "filtered" =>
        \A pool \in {IF chain.is_revcomp THEN read.rev_anchors ELSE read.fwd_anchors} :
            (\A j \in 1..Len(pool) : pool[j].ref_start + read.k <= UMax) =>
                /\ \A x \in 1..Len(filtered_anchors) : filtered_anchors[x] \in 1..Len(pool)
                /\ \A x \in 1..(Len(filtered_anchors) - 1) :
                       filtered_anchors[x] < filtered_anchors[x + 1]
                /\ {filtered_anchors[x] : x \in 1..Len(filtered_anchors)} =
                       {j \in 1..Len(pool) :
                            /\ pool[j].ref_start >= ref_plot_start
                            /\ pool[j].ref_start + read.k <= ref_plot_end}

\* Window [95, 205], k = 10, reverse-complement chain: of the reverse pool
\* 96, 204, 190 the first and third are kept; 204 (footprint end 214) is not.
C6_Witness ==
    /\ ppc = "filtered" /\ chain.is_revcomp
    /\ ref_plot_start = 95 /\ ref_plot_end = 205 /\ read.k = 10
    /\ read.fwd_anchors # read.rev_anchors
    /\ Len(read.rev_anchors) = 3
    /\ filtered_anchors = <<1, 3>>

\* ------------------------------------------------------------ plot_reads
\* char::is_ascii_alphanumeric
AsciiAlphanumeric ==
    Digits \cup
    {"a","b","c","d","e","f","g","h","i","j","k","l","m",
     "n","o","p","q","r","s","t","u","v","w","x","y","z",
     "A","B","C","D","E","F","G","H","I","J","K","L","M",
     "N","O","P","Q","R","S","T","U","V","W","X","Y","Z"}

\* sanitize_filename: every character that is not alphanumeric, '-' or '_'
\* becomes '_'.
SanitizeFilename(name) ==
    [j \in 1..Len(name) |->
        IF name[j] \in AsciiAlphanumeric \/ name[j] = "-" \/ name[j] = "_"
        THEN name[j] ELSE "_"]

\* {:.2} of a score held in thousandths: the hundredths it prints (the
\* scores used never end in 5, where the binary value decides the rounding).
FormatScore2(score) == (score + 5) \div 10

\* format!("chain_score={}_cigar={:.2}.png", chain_idx, chain.score): the
\* two values that vary in the name.
ChainFilename(chain_idx, score) == <<chain_idx, FormatScore2(score)>>

\* read_dir.join(filename), read_dir = Path::new(output).join(safe_name)
ChainFilepath(rd, chain_idx) ==
    <<SanitizeFilename(rd.name), ChainFilename(chain_idx, rd.scores[chain_idx + 1])>>

FanNames == { <<"r","1">>, <<"r","/","1">>, <<"r","_","1">> }

FanScores == {1500, 1504}

\* A decoded Read as plot_reads uses it: its name and its chains' scores.
FanReads ==
    {[name |-> nm, scores |-> sc] :
        nm \in FanNames, sc \in SeqsUpTo(FanScores, MaxFanChains) \ {<<>>}}

FanInit ==
    /\ out_reads \in SeqsUpTo(FanReads, MaxFanReads) \ {<<>>}
    /\ dirs = {}
    /\ started = {}
    /\ writes = {}

\* The per-read closure up to create_dir_all(&read_dir).
ReadTask(r) ==
    /\ r \notin started
    /\ started' = started \cup {r}
    /\ dirs' = dirs \cup {SanitizeFilename(out_reads[r].name)}
    /\ UNCHANGED <<out_reads, writes>>
    /\ UNCHANGED <<scan_vars, cigar_vars, plot_vars>>

\* plot_chain(read, chain, chain_idx, &read_dir, ..): the task writes its
\* image to read_dir/filename (c is chain_idx + 1).
ChainTask(r, c) ==
    /\ r \in started
    /\ \A w \in writes : w.task # <<r, c>>
    /\ writes' = writes \cup {[task |-> <<r, c>>,
                               path |-> ChainFilepath(out_reads[r], c - 1)]}
    /\ UNCHANGED <<out_reads, dirs, started>>
    /\ UNCHANGED <<scan_vars, cigar_vars, plot_vars>>

InitFan == ScanIdle /\ CigarIdle /\ PlotIdle /\ FanInit

NextFan ==
    \/ \E r \in 1..Len(out_reads) : ReadTask(r)
    \/ \E r \in 1..Len(out_reads) : \E c \in 1..Len(out_reads[r].scores) : ChainTask(r, c)

SpecFan == InitFan /\ [][NextFan]_vars

\* ------------------------------------------------------ fan-out claims
\* C9 as stated, for reads whose names are pairwise different: distinct
\* reads use distinct subdirectories, chains of one read use distinct file
\* names, and so no two tasks write the same file.
C9_NoSharedOutputFile ==
    (\A r1, r2 \in 1..Len(out_reads) : r1 # r2 => out_reads[r1].name # out_reads[r2].name) =>
        /\ \A r1, r2 \in started :
              r1 # r2 => SanitizeFilename(out_reads[r1].name)
                             # SanitizeFilename(out_reads[r2].name)
        /\ \A w1, w2 \in writes : w1.task # w2.task => w1.path # w2.path

====
